---- MODULE Spec2Model ----
(***************************************************************************)
(* Model of src/obsidian_note.rs: ObsidianNote::read_from_path,            *)
(* ObsidianNote::parse and extract_frontmatter.                            *)
(*                                                                         *)
(* A text is a sequence of one-character strings.  Option<T> is a sequence *)
(* of length at most one (None == <<>>, Some(x) == <<x>>).  A Result is a  *)
(* record [ok, val, err] with val an Option.                               *)
(***************************************************************************)
EXTENDS Integers, Sequences, FiniteSets, TLC

\* ------------------------------------------------------------------ bounds
MaxFree == 3       \* most characters of an input text outside inserted markers
MaxMarkers == 3    \* most "---" markers inserted into an input text
MaxParses == 2     \* parse calls per behaviour (the second re-parses the note)

\* ------------------------------------------------------- inputs and types
Chars == {"-", " ", "a", "{"}
Paths == {"a-note.md", "b-note.md"}

None == <<>>
Some(x) == <<x>>

Ok(v) == [ok |-> TRUE, val |-> Some(v), err |-> "none"]
Err(e) == [ok |-> FALSE, val |-> None, err |-> e]

\* serde_yaml::Value, uniformly shaped: tag, scalar text, sequence items
Null == [tag |-> "Null", s |-> <<>>, items |-> <<>>]
String(t) == [tag |-> "String", s |-> t, items |-> <<>>]
Sequence(vs) == [tag |-> "Sequence", s |-> <<>>, items |-> vs]

delimiter == <<"-", "-", "-">>

\* ------------------------------------------------------------ str helpers
IsWhitespace(c) == c = " "

RECURSIVE trim_start(_)
trim_start(s) ==
  IF s # <<>> /\ IsWhitespace(Head(s)) THEN trim_start(Tail(s)) ELSE s

RECURSIVE trim_end(_)
trim_end(s) ==
  IF s # <<>> /\ IsWhitespace(s[Len(s)])
  THEN trim_end(SubSeq(s, 1, Len(s) - 1)) ELSE s

trim(s) == trim_end(trim_start(s))

\* the pattern matches at 1-based index i of s
MatchAt(s, i) ==
  /\ i >= 1
  /\ i + Len(delimiter) - 1 <= Len(s)
  /\ SubSeq(s, i, i + Len(delimiter) - 1) = delimiter

\* str::find: index of the leftmost match, 0 when there is none
find(s) ==
  IF \E i \in 1..Len(s) : MatchAt(s, i)
  THEN CHOOSE i \in 1..Len(s) :
         MatchAt(s, i) /\ \A j \in 1..(i - 1) : ~MatchAt(s, j)
  ELSE 0

\* str::splitn(n, "---"): at most n items, the last one is the remainder
RECURSIVE splitn(_, _)
splitn(n, s) ==
  IF n = 0 THEN <<>>
  ELSE IF n = 1 \/ find(s) = 0 THEN <<s>>
  ELSE <<SubSeq(s, 1, find(s) - 1)>>
         \o splitn(n - 1, SubSeq(s, find(s) + Len(delimiter), Len(s)))

\* Iterator::next, called k times on a fresh iterator
next(parts, k) == IF k <= Len(parts) THEN Some(parts[k]) ELSE None

\* ------------------------------------------------- extract_frontmatter
\* variant: the first segment is not required to be empty
extract_frontmatter_any_first(content) ==
  LET parts == splitn(3, content)
      p2 == next(parts, 2)
      p3 == next(parts, 3)
  IN  IF p2 # None /\ p3 # None
      THEN <<Some(trim(p2[1])), Some(trim(p3[1]))>>
      ELSE IF p2 # None /\ p3 = None
      THEN <<Some(trim(p2[1])), None>>
      ELSE <<None, Some(trim(content))>>

\* variant: split instead of splitn(3), every marker is a cut point
extract_frontmatter_split(content) ==
  LET parts == splitn(Len(content) + 1, content)
      p1 == next(parts, 1)
      p2 == next(parts, 2)
      p3 == next(parts, 3)
  IN  IF p1 = Some(<<>>) /\ p2 # None /\ p3 # None
      THEN <<Some(trim(p2[1])), Some(trim(p3[1]))>>
      ELSE IF p1 = Some(<<>>) /\ p2 # None /\ p3 = None
      THEN <<Some(trim(p2[1])), None>>
      ELSE <<None, Some(trim(content))>>

\* variant: the first arm returns the whole text as the body
extract_frontmatter_whole_body(content) ==
  LET parts == splitn(3, content)
      p1 == next(parts, 1)
      p2 == next(parts, 2)
      p3 == next(parts, 3)
  IN  IF p1 = Some(<<>>) /\ p2 # None /\ p3 # None
      THEN <<Some(trim(p2[1])), Some(trim(content))>>
      ELSE IF p1 = Some(<<>>) /\ p2 # None /\ p3 = None
      THEN <<Some(trim(p2[1])), None>>
      ELSE <<None, Some(trim(content))>>

\* variant: the second arm forgets to trim the block
extract_frontmatter_untrimmed(content) ==
  LET parts == splitn(3, content)
      p1 == next(parts, 1)
      p2 == next(parts, 2)
      p3 == next(parts, 3)
  IN  IF p1 = Some(<<>>) /\ p2 # None /\ p3 # None
      THEN <<Some(trim(p2[1])), Some(trim(p3[1]))>>
      ELSE IF p1 = Some(<<>>) /\ p2 # None /\ p3 = None
      THEN <<Some(p2[1]), None>>
      ELSE <<None, Some(trim(content))>>

\* variant: the second arm is missing, a closing marker is required
extract_frontmatter_closed(content) ==
  LET parts == splitn(3, content)
      p1 == next(parts, 1)
      p2 == next(parts, 2)
      p3 == next(parts, 3)
  IN  IF p1 = Some(<<>>) /\ p2 # None /\ p3 # None
      THEN <<Some(trim(p2[1])), Some(trim(p3[1]))>>
      ELSE <<None, Some(trim(content))>>

extract_frontmatter(content) ==
  LET parts == splitn(3, content)
      p1 == next(parts, 1)
      p2 == next(parts, 2)
      p3 == next(parts, 3)
  IN  IF p1 = Some(<<>>) /\ p2 # None /\ p3 # None
      THEN <<Some(trim(p2[1])), Some(trim(p3[1]))>>
      ELSE IF p1 = Some(<<>>) /\ p2 # None /\ p3 = None
      THEN <<Some(trim(p2[1])), None>>
      ELSE <<None, Some(trim(content))>>

\* ------------------------------------------------- serde_yaml::from_str
\* The YAML reader on the fragment the alphabet can spell: an empty
\* document is null, "- x" is a one-entry block sequence, a node opening
\* with "{" is a flow mapping that is never closed (a syntax error), and
\* anything else is a plain scalar.
RECURSIVE from_str(_)
from_str(s) ==
  LET t == trim(s)
  IN  IF t = <<>> THEN Ok(Null)
      ELSE IF t[1] = "{" THEN Err("yaml")
      ELSE IF t[1] = "-" /\ (Len(t) = 1 \/ IsWhitespace(t[2]))
      THEN LET inner == from_str(Tail(t))
           IN  IF inner.ok THEN Ok(Sequence(<<inner.val[1]>>)) ELSE inner
      ELSE Ok(String(t))

\* ------------------------------------------------- Option / Result glue
\* variant: the closure runs on a defaulted string even for None
map_invokes_always(opt) == TRUE

\* Option::map runs its closure exactly when the option is Some
map_invokes(opt) == opt # None

\* variant: .ok().flatten() in place of .transpose()?, errors are dropped
transpose_swallow(opt) ==
  IF opt = None THEN Ok(None)
  ELSE IF opt[1].ok THEN Ok(Some(opt[1].val[1]))
  ELSE Ok(None)

\* Option<Result<T>>::transpose
transpose(opt) ==
  IF opt = None THEN Ok(None)
  ELSE IF opt[1].ok THEN Ok(Some(opt[1].val[1]))
  ELSE Err(opt[1].err)

\* variant: the and_then is missing
and_then_keep_null(opt) == opt

\* .and_then(|fm| if fm == Value::Null { None } else { Some(fm) })
and_then_non_null(opt) ==
  IF opt = None THEN None
  ELSE IF opt[1] = Null THEN None ELSE Some(opt[1])

unwrap_or(opt, default) == IF opt = None THEN default ELSE opt[1]

\* variant: file_contents is stored trimmed
MakeNote_trimmed(path, contents, body, fm) ==
  [file_path |-> path,
   file_body |-> unwrap_or(body, <<>>),
   file_contents |-> trim(contents),
   properties |-> fm]

\* the struct literal of parse
MakeNote(path, contents, body, fm) ==
  [file_path |-> path,
   file_body |-> unwrap_or(body, <<>>),
   file_contents |-> contents,
   properties |-> fm]

\* ------------------------------------------------------------- the texts
\* every text got from at most MaxFree characters by inserting the marker
\* at most MaxMarkers times, anywhere
Free == UNION {[1..n -> Chars] : n \in 0..MaxFree}

InsertMarker(t, p) == SubSeq(t, 1, p) \o delimiter \o SubSeq(t, p + 1, Len(t))

RECURSIVE WithMarkers(_)
WithMarkers(k) ==
  IF k = 0 THEN Free
  ELSE LET prev == WithMarkers(k - 1)
       IN  prev \cup UNION {{InsertMarker(t, p) : p \in 0..Len(t)} : t \in prev}

Texts == WithMarkers(MaxMarkers)

\* ------------------------------------------------------------------ state
VARIABLES
  pc,              \* position: "call", "extract", "deserialize", "normalize",
                   \*           "assemble", "done"
  entry,           \* which constructor was called
  file_path,       \* argument of the running call
  file_contents,   \* argument of parse (for read_from_path: the file on disk)
  frontmatter_str, \* first component of extract_frontmatter's result
  file_body,       \* second component of extract_frontmatter's result
  parsed,          \* Option<Value> after map(from_str).transpose()?
  frontmatter,     \* Option<Value> after the and_then
  result,          \* Option<Result<ObsidianNote>>: the call's return value
  from_str_calls,  \* how often the running parse invoked serde_yaml::from_str
  first,           \* Option<ObsidianNote>: the note whose contents are re-parsed
  input,           \* the text handed to the first parse
  parses           \* parse calls started so far

vars == <<pc, entry, file_path, file_contents, frontmatter_str, file_body,
          parsed, frontmatter, result, from_str_calls, first, input, parses>>

Init ==
  /\ pc = "call"
  /\ entry = "none"
  /\ file_path \in Paths
  /\ file_contents \in Texts
  /\ frontmatter_str = None
  /\ file_body = None
  /\ parsed = None
  /\ frontmatter = None
  /\ result = None
  /\ from_str_calls = 0
  /\ first = None
  /\ input = file_contents
  /\ parses = 0

\* a caller invokes ObsidianNote::parse directly
CallParse ==
  /\ pc = "call"
  /\ pc' = "extract"
  /\ entry' = "parse"
  /\ parses' = parses + 1
  /\ UNCHANGED <<file_path, file_contents, frontmatter_str, file_body, parsed,
                 frontmatter, result, from_str_calls, first, input>>

\* read_from_path: fs::read_to_string succeeds, parse is called on the text
ReadFromPath ==
  /\ pc = "call"
  /\ pc' = "extract"
  /\ entry' = "read_from_path"
  /\ parses' = parses + 1
  /\ UNCHANGED <<file_path, file_contents, frontmatter_str, file_body, parsed,
                 frontmatter, result, from_str_calls, first, input>>

\* read_from_path: fs::read_to_string fails and `?` returns the error
ReadFromPathFails ==
  /\ pc = "call"
  /\ pc' = "done"
  /\ entry' = "read_from_path"
  /\ result' = Some(Err("io"))
  /\ UNCHANGED <<file_path, file_contents, frontmatter_str, file_body, parsed,
                 frontmatter, from_str_calls, first, input, parses>>

\* let (frontmatter_str, file_body) = extract_frontmatter(&file_contents);
Extract ==
  /\ pc = "extract"
  /\ frontmatter_str' = extract_frontmatter(file_contents)[1]
  /\ file_body' = extract_frontmatter(file_contents)[2]
  /\ pc' = "deserialize"
  /\ UNCHANGED <<entry, file_path, file_contents, parsed, frontmatter, result,
                 from_str_calls, first, input, parses>>

\* frontmatter_str.map(|s| from_str(&s)).transpose()
Deserialized ==
  transpose(IF map_invokes(frontmatter_str)
            THEN Some(from_str(unwrap_or(frontmatter_str, <<>>)))
            ELSE None)

\* ... and the `?` lets the value through
Deserialize ==
  /\ pc = "deserialize"
  /\ Deserialized.ok
  /\ parsed' = Deserialized.val[1]
  /\ from_str_calls' = from_str_calls + (IF map_invokes(frontmatter_str) THEN 1 ELSE 0)
  /\ pc' = "normalize"
  /\ UNCHANGED <<entry, file_path, file_contents, frontmatter_str, file_body,
                 frontmatter, result, first, input, parses>>

\* ... and the `?` returns the deserializer's error from parse
DeserializeFails ==
  /\ pc = "deserialize"
  /\ ~Deserialized.ok
  /\ result' = Some(Err(Deserialized.err))
  /\ from_str_calls' = from_str_calls + (IF map_invokes(frontmatter_str) THEN 1 ELSE 0)
  /\ pc' = "done"
  /\ UNCHANGED <<entry, file_path, file_contents, frontmatter_str, file_body,
                 parsed, frontmatter, first, input, parses>>

\* .and_then(|fm| ...)
Normalize ==
  /\ pc = "normalize"
  /\ frontmatter' = and_then_non_null(parsed)
  /\ pc' = "assemble"
  /\ UNCHANGED <<entry, file_path, file_contents, frontmatter_str, file_body,
                 parsed, result, from_str_calls, first, input, parses>>

\* let note = Self { ... }; Ok(note)
Assemble ==
  /\ pc = "assemble"
  /\ result' = Some(Ok(MakeNote(file_path, file_contents, file_body, frontmatter)))
  /\ pc' = "done"
  /\ UNCHANGED <<entry, file_path, file_contents, frontmatter_str, file_body,
                 parsed, frontmatter, from_str_calls, first, input, parses>>

\* a caller parses the produced note's file_contents again, same path
Reparse ==
  /\ pc = "done"
  /\ parses < MaxParses
  /\ result # None /\ result[1].ok
  /\ first' = Some(result[1].val[1])
  /\ file_path' = result[1].val[1].file_path
  /\ file_contents' = result[1].val[1].file_contents
  /\ entry' = "parse"
  /\ frontmatter_str' = None
  /\ file_body' = None
  /\ parsed' = None
  /\ frontmatter' = None
  /\ result' = None
  /\ from_str_calls' = 0
  /\ parses' = parses + 1
  /\ pc' = "extract"
  /\ UNCHANGED input

Next ==
  \/ CallParse
  \/ ReadFromPath
  \/ ReadFromPathFails
  \/ Extract
  \/ Deserialize
  \/ DeserializeFails
  \/ Normalize
  \/ Assemble
  \/ Reparse

Spec == Init /\ [][Next]_vars

TypeOK ==
  /\ pc \in {"call", "extract", "deserialize", "normalize", "assemble", "done"}
  /\ Len(frontmatter_str) <= 1 /\ Len(file_body) <= 1
  /\ from_str_calls \in 0..1

\* ============================================================ properties
\* vocabulary of the properties, stated on the text itself
StartsWithMarker(t) == MatchAt(t, 1)

\* what follows the leading marker
AfterFirst(t) == SubSeq(t, Len(delimiter) + 1, Len(t))

\* the text between the leading marker and the next one
Block(t) == SubSeq(AfterFirst(t), 1, find(AfterFirst(t)) - 1)

\* everything after the second marker
Rest(t) ==
  SubSeq(AfterFirst(t), find(AfterFirst(t)) + Len(delimiter), Len(AfterFirst(t)))

\* markers met scanning left to right, each starting after the previous one
RECURSIVE CountMarkers(_)
CountMarkers(t) ==
  IF find(t) = 0 THEN 0
  ELSE 1 + CountMarkers(SubSeq(t, find(t) + Len(delimiter), Len(t)))

Split == pc \in {"deserialize", "normalize", "assemble", "done"}
         /\ ~(pc = "done" /\ result[1].err = "io")
ParseReturned == pc = "done" /\ result[1].err # "io"
ParseOk == pc = "done" /\ result[1].ok
TheNote == result[1].val[1]

\* C1: a text with zero or exactly one marker (wherever it is) parses with
\* no properties and with the trimmed whole text as body.
C1_AtMostOneMarkerIsBody ==
  (ParseReturned /\ CountMarkers(file_contents) <= 1) =>
    /\ result[1].ok
    /\ TheNote.properties = None
    /\ TheNote.file_body = trim(file_contents)

\* C2: when the first marker of the text is not at position 0 no block is
\* extracted: parse succeeds with no properties and the trimmed whole text
\* as body, however many markers follow.
C2_MarkerNotAtStart ==
  find(file_contents) > 1 =>
    /\ Split => frontmatter_str = None
    /\ ParseReturned =>
         /\ result[1].ok
         /\ TheNote.properties = None
         /\ TheNote.file_body = trim(file_contents)

C2_Witness ==
  /\ ParseOk
  /\ find(file_contents) > 1
  /\ CountMarkers(file_contents) >= 2
  /\ TheNote.file_body # file_contents

\* C3: a returned note never has properties Some(Null); a block that
\* deserializes to Null gives properties None.
C3_NeverSomeNull ==
  ParseOk =>
    /\ TheNote.properties # Some(Null)
    /\ (frontmatter_str # None /\ from_str(frontmatter_str[1]) = Ok(Null))
         => TheNote.properties = None

C3_Witness ==
  /\ ParseOk
  /\ frontmatter_str = Some(<<>>)
  /\ from_str_calls = 1
  /\ TheNote.properties = None

\* C4: for marker, block, marker, rest: properties are the deserialized
\* trimmed block when it is not Null, and the body is the trimmed rest, in
\* which later markers stay as they are.
C4_BlockAndRest ==
  ( /\ ParseReturned
    /\ StartsWithMarker(file_contents)
    /\ find(AfterFirst(file_contents)) > 0
    /\ from_str(trim(Block(file_contents))).ok ) =>
    /\ result[1].ok
    /\ TheNote.file_body = trim(Rest(file_contents))
    /\ from_str(trim(Block(file_contents))).val[1] # Null
         => TheNote.properties = from_str(trim(Block(file_contents))).val

C4_Witness ==
  /\ ParseOk
  /\ StartsWithMarker(file_contents)
  /\ find(AfterFirst(file_contents)) > 0
  /\ TheNote.properties # None
  /\ find(TheNote.file_body) > 0

\* C5: when a block was extracted and the deserializer fails on it, parse
\* returns that error and no note.
C5_DeserializeErrorIsFatal ==
  ( /\ pc \in {"normalize", "assemble", "done"}
    /\ frontmatter_str # None
    /\ ~from_str(frontmatter_str[1]).ok ) =>
    /\ pc = "done"
    /\ ~result[1].ok
    /\ result[1].err = "yaml"
    /\ result[1].val = None

C5_Witness ==
  /\ pc = "done"
  /\ frontmatter_str # None
  /\ ~from_str(frontmatter_str[1]).ok
  /\ result = Some(Err("yaml"))

\* C6: a returned note keeps the text it was parsed from unmodified, and
\* parsing that note's file_contents again with the same path returns an
\* equal note.
C6_ReparseIsEqual ==
  ParseOk =>
    /\ TheNote.file_contents = file_contents
    /\ TheNote.file_contents = input
    /\ first # None => TheNote = first[1]

C6_Witness ==
  /\ ParseOk
  /\ first # None
  /\ TheNote.properties # None
  /\ TheNote.file_body # <<>>
  /\ trim(TheNote.file_contents) # TheNote.file_contents

\* C7 as stated: for marker, block, marker and nothing after, the splitter
\* returns a block and no body, and the note's body is empty.
C7_Original ==
  ( /\ StartsWithMarker(file_contents)
    /\ find(AfterFirst(file_contents)) > 0
    /\ Rest(file_contents) = <<>> ) =>
    /\ Split => (frontmatter_str # None /\ file_body = None)
    /\ ParseOk => TheNote.file_body = <<>>

\* C7 amended: for marker, block, marker and nothing after, the splitter
\* returns the trimmed block and a body that is present and empty, and a
\* returned note's body is empty.
C7_ClosedBlockEmptyBody ==
  ( /\ StartsWithMarker(file_contents)
    /\ find(AfterFirst(file_contents)) > 0
    /\ Rest(file_contents) = <<>> ) =>
    /\ Split => /\ frontmatter_str = Some(trim(Block(file_contents)))
                /\ file_body = Some(<<>>)
    /\ ParseOk => TheNote.file_body = <<>>

C7_Witness ==
  /\ ParseOk
  /\ StartsWithMarker(file_contents)
  /\ find(AfterFirst(file_contents)) > 0
  /\ Rest(file_contents) = <<>>
  /\ TheNote.properties # None
  /\ TheNote.file_body = <<>>

\* C8: when the 3-way split has an empty first segment, a second segment and
\* no third one, the splitter returns the trimmed second segment and no
\* body; the deserializer gets that segment and the note's body is empty.
C8_SecondArm ==
  ( /\ Len(splitn(3, file_contents)) = 2
    /\ splitn(3, file_contents)[1] = <<>> ) =>
    /\ Split => /\ frontmatter_str = Some(trim(splitn(3, file_contents)[2]))
                /\ file_body = None
    /\ pc \in {"normalize", "assemble"} => from_str_calls = 1
    /\ ParseReturned => from_str_calls = 1
    /\ ParseOk => TheNote.file_body = <<>>

C8_Witness ==
  /\ ParseOk
  /\ Len(splitn(3, file_contents)) = 2
  /\ splitn(3, file_contents)[1] = <<>>
  /\ trim(splitn(3, file_contents)[2]) # splitn(3, file_contents)[2]
  /\ file_body = None
  /\ TheNote.file_body = <<>>

\* C9: the deserializer runs at most once per parse and only on an
\* extracted block; with no block parse returns a note without properties
\* and the deserializer has not run.
C9_DeserializerOnlyOnBlock ==
  /\ from_str_calls <= 1
  /\ from_str_calls = 1 => frontmatter_str # None
  /\ (ParseReturned /\ frontmatter_str = None) =>
       /\ result[1].ok
       /\ TheNote.properties = None
       /\ from_str_calls = 0

C9_Witness ==
  /\ ParseOk
  /\ frontmatter_str = None
  /\ from_str_calls = 0
  /\ CountMarkers(file_contents) >= 1

\* C10: the splitter returns a block exactly when the text's first three
\* characters are the marker; without a second marker the block is the
\* whole trimmed remainder and there is no body.
C10_LeadingMarkerOnly ==
  Split =>
    /\ frontmatter_str # None <=> StartsWithMarker(file_contents)
    /\ (StartsWithMarker(file_contents) /\ find(AfterFirst(file_contents)) = 0)
         => /\ frontmatter_str = Some(trim(AfterFirst(file_contents)))
            /\ file_body = None

C10_Witness ==
  /\ ParseOk
  /\ StartsWithMarker(file_contents)
  /\ find(AfterFirst(file_contents)) = 0
  /\ frontmatter_str = Some(<<"-">>)
  /\ TheNote.properties = Some(Sequence(<<Null>>))
====
